---- MODULE Spec2Model ----
(***************************************************************************)
(* Model of CheckMessagesFromL2ToMES.py: one run of main(), the threshold  *)
(* check of the L2->MES message count, with its three collaborators: the   *)
(* Oracle query (Metric Source), send_email_alert (Notifier) and           *)
(* set_output (Result Sink).                                               *)
(*                                                                         *)
(* Strings that the program parses, splits or formats are tuples of        *)
(* one-character strings (<<"1","0","0">> is "100"); an environment        *)
(* variable is a record [present, value], present = FALSE meaning the      *)
(* variable is not in os.environ.  pc is the source line main() is at;     *)
(* pc = 193 is the process having exited (raise SystemExit(main())).       *)
(***************************************************************************)
EXTENDS Integers, Sequences, FiniteSets, TLC

(* ----------------------------- bounds ---------------------------------- *)

\* longest THRESHOLD_VALUE string drawn
MaxLen == 2
\* largest count(*) the query returns
MaxCount == 2

(* ----------------------------- strings --------------------------------- *)

Digits == {"0", "1", "2", "3", "4", "5", "6", "7", "8", "9"}

DigitVal(c) ==
    CASE c = "0" -> 0 [] c = "1" -> 1 [] c = "2" -> 2 [] c = "3" -> 3
      [] c = "4" -> 4 [] c = "5" -> 5 [] c = "6" -> 6 [] c = "7" -> 7
      [] c = "8" -> 8 [] c = "9" -> 9

DigitChar(d) ==
    CASE d = 0 -> "0" [] d = 1 -> "1" [] d = 2 -> "2" [] d = 3 -> "3"
      [] d = 4 -> "4" [] d = 5 -> "5" [] d = 6 -> "6" [] d = 7 -> "7"
      [] d = 8 -> "8" [] d = 9 -> "9"

\* all tuples over alphabet A of length at most n
RECURSIVE StringsUpTo(_, _)
StringsUpTo(A, n) ==
    IF n = 0 THEN {<<>>}
    ELSE LET shorter == StringsUpTo(A, n - 1)
         IN  shorter \cup {Append(s, c) : s \in shorter, c \in A}

RECURSIVE LStrip(_)
LStrip(s) == IF s # <<>> /\ Head(s) = " " THEN LStrip(Tail(s)) ELSE s

RECURSIVE RStrip(_)
RStrip(s) ==
    IF s # <<>> /\ s[Len(s)] = " " THEN RStrip(SubSeq(s, 1, Len(s) - 1)) ELSE s

\* str.strip()
strip(s) == RStrip(LStrip(s))

RECURSIVE DigitsValue(_)
DigitsValue(s) ==
    IF s = <<>> THEN 0
    ELSE DigitsValue(SubSeq(s, 1, Len(s) - 1)) * 10 + DigitVal(s[Len(s)])

IsDigits(s) == s # <<>> /\ \A i \in 1..Len(s) : s[i] \in Digits

\* int(str): [ok |-> FALSE] is ValueError.  Surrounding blanks are ignored,
\* one leading sign is accepted, the rest must be decimal digits.
int(s) ==
    LET t == strip(s)
    IN  IF IsDigits(t) THEN [ok |-> TRUE, value |-> DigitsValue(t)]
        ELSE IF t # <<>> /\ Head(t) \in {"-", "+"} /\ IsDigits(Tail(t))
             THEN [ok |-> TRUE,
                   value |-> IF Head(t) = "-" THEN 0 - DigitsValue(Tail(t))
                             ELSE DigitsValue(Tail(t))]
        ELSE [ok |-> FALSE, value |-> 0]

RECURSIVE NatToStr(_)
NatToStr(n) ==
    IF n < 10 THEN <<DigitChar(n)>>
    ELSE Append(NatToStr(n \div 10), DigitChar(n % 10))

\* str(int)
str(n) == IF n < 0 THEN <<"-">> \o NatToStr(0 - n) ELSE NatToStr(n)

\* str.split(","): never empty, "" splits to [""]
RECURSIVE split(_)
split(s) ==
    IF \A i \in 1..Len(s) : s[i] # "," THEN <<s>>
    ELSE LET k == CHOOSE i \in 1..Len(s) :
                      s[i] = "," /\ \A j \in 1..(i - 1) : s[j] # ","
         IN  <<SubSeq(s, 1, k - 1)>> \o split(SubSeq(s, k + 1, Len(s)))

(* --------------------------- environment ------------------------------- *)

Unset == [present |-> FALSE, value |-> <<>>]
Set(v) == [present |-> TRUE, value |-> v]

\* os.environ.get(name, default)
environ_get(var, default) == IF var.present THEN var.value ELSE default

\* Python truthiness of os.environ.get(name): None and "" are falsy
Truthy(var) == var.present /\ var.value # <<>>

\* values drawn for ORACLE_USER, ORACLE_PASSWORD, ORACLE_DSN
MandatoryValues == {Unset, Set(<<>>), Set(<<"x">>)}

ThresholdAlphabet == {"1", "-", "a", " "}

\* values drawn for THRESHOLD_VALUE
ThresholdValues ==
    {Unset} \cup {Set(s) : s \in StringsUpTo(ThresholdAlphabet, MaxLen)}

\* values drawn for MESSAGE_STATUS: the label only names the metric, so the
\* runs are drawn with the variable absent
StatusValues == {Unset}

SmtpVars ==
    {"SMTP_SERVER", "SMTP_PORT", "SMTP_USER", "SMTP_PASSWORD", "FROM_EMAIL",
     "TO_EMAILS"}

\* a setup with which delivery can succeed
WorkingSmtp ==
    [v \in SmtpVars |->
        CASE v = "SMTP_PORT" -> Set(<<"2", "5">>)
          [] v = "TO_EMAILS" -> Set(<<"a", ",", "b">>)
          [] OTHER -> Set(<<"x">>)]

SmtpValues(v) ==
    CASE v = "SMTP_PORT" -> {Unset, Set(<<"2", "5">>), Set(<<"a">>)}
      [] v = "TO_EMAILS" -> {Unset, Set(<<>>), Set(<<"a">>), Set(<<"a", ",", "b">>)}
      [] OTHER -> {Unset, Set(<<"x">>)}

\* the SMTP environments drawn: the working one, and every one that differs
\* from it in a single variable
SmtpEnvs ==
    {e \in [SmtpVars -> UNION {SmtpValues(v) : v \in SmtpVars}] :
        /\ \A v \in SmtpVars : e[v] \in SmtpValues(v)
        /\ Cardinality({v \in SmtpVars : e[v] # WorkingSmtp[v]}) <= 1}

(* ----------------------------- Notifier -------------------------------- *)

\* what the SMTP server does with the session opened at line 80
TransportAnswers ==
    {"delivered", "connect_error", "tls_error", "auth_error", "recipients_refused"}

\* a transport that takes every item of the list for an address
to_addrs_unfiltered(to_emails) == to_emails

\* the addresses smtplib takes from the To header built at line 59: the
\* non-empty items of the list (for the recipient values drawn here)
to_addrs(to_emails) == SelectSeq(to_emails, LAMBDA a : a # <<>>)

\* lines 48-86, the body of the try: the exception it raises, "None" when it
\* runs to the return True of line 86
send_email_alert_body(env, transport) ==
    IF ~env["SMTP_SERVER"].present THEN "KeyError"
    ELSE IF ~int(environ_get(env["SMTP_PORT"], <<"5", "8", "7">>)).ok THEN "ValueError"
    ELSE IF ~env["SMTP_USER"].present THEN "KeyError"
    ELSE IF ~env["SMTP_PASSWORD"].present THEN "KeyError"
    ELSE IF ~env["FROM_EMAIL"].present THEN "KeyError"
    ELSE IF ~env["TO_EMAILS"].present THEN "KeyError"
    ELSE IF transport = "connect_error" THEN "OSError"
    ELSE IF transport = "tls_error" THEN "SMTPNotSupportedError"
    ELSE IF transport = "auth_error" THEN "SMTPAuthenticationError"
    ELSE IF to_addrs(split(env["TO_EMAILS"].value)) = <<>> THEN "SMTPRecipientsRefused"
    ELSE IF transport = "recipients_refused" THEN "SMTPRecipientsRefused"
    ELSE "None"

SmtpExceptions ==
    {"SMTPNotSupportedError", "SMTPAuthenticationError", "SMTPRecipientsRefused"}

\* a handler that catches smtplib.SMTPException only
send_email_alert_narrow(env, transport) ==
    LET e == send_email_alert_body(env, transport)
    IN  IF e = "None" THEN [raised |-> FALSE, value |-> TRUE]
        ELSE IF e \in SmtpExceptions THEN [raised |-> FALSE, value |-> FALSE]
        ELSE [raised |-> TRUE, value |-> FALSE]

\* send_email_alert: [raised, value]; every exception of the body is an
\* Exception and is caught at line 88
send_email_alert(env, transport) ==
    LET e == send_email_alert_body(env, transport)
    IN  IF e = "None" THEN [raised |-> FALSE, value |-> TRUE]
        ELSE [raised |-> FALSE, value |-> FALSE]

(* ---------------------------- Result Sink ------------------------------ *)

\* a set_output that opens the file without looking at the path
set_output_unguarded(path, file, name, value, io_ok) ==
    IF ~Truthy(path) THEN [raised |-> TRUE, file |-> file]
    ELSE IF io_ok THEN [raised |-> FALSE, file |-> Append(file, <<name, value>>)]
    ELSE [raised |-> TRUE, file |-> file]

\* set_output: the file after the call and whether open()/write() raised.
\* io_ok is whether the file at GITHUB_OUTPUT can be appended to.
set_output(path, file, name, value, io_ok) ==
    IF ~Truthy(path) THEN [raised |-> FALSE, file |-> file]
    ELSE IF io_ok THEN [raised |-> FALSE, file |-> Append(file, <<name, value>>)]
    ELSE [raised |-> TRUE, file |-> file]

(* ------------------------------- main ---------------------------------- *)

VARIABLES
    pc,             \* source line main() is at; 193 = exited
    GITHUB_OUTPUT,  \* os.environ["GITHUB_OUTPUT"]
    THRESHOLD_VALUE,\* os.environ["THRESHOLD_VALUE"], as read at line 102
    smtp_env,       \* os.environ, the variables send_email_alert reads
    user, password, dsn,
    threshold_str, threshold,
    metric_name, metric_value,
    utc_time, alert, email_sent,
    output_file,    \* lines appended to the GITHUB_OUTPUT file
    conn_open,      \* an oracledb connection is open
    db_calls,       \* oracledb.connect invocations
    query_calls,    \* cur.execute invocations
    result,         \* what cur.fetchone() returned
    email_calls,    \* send_email_alert invocations, with their results
    metric_source,  \* the Oracle read: "not_called", "returned" or "raised"
    uncaught,       \* an exception left main()
    exit_status     \* process exit status, -1 while running

vars ==
    <<pc, GITHUB_OUTPUT, smtp_env, user, password, dsn, threshold_str, threshold,
      metric_name, metric_value, utc_time, alert, email_sent, output_file,
      conn_open, db_calls, email_calls, metric_source, uncaught, exit_status,
      THRESHOLD_VALUE, query_calls, result>>

\* datetime.now(timezone.utc).isoformat()
UtcNow == {<<"t1">>, <<"t2">>}

ORACLE_CHECK_FAILED == <<"ORACLE_CHECK_FAILED">>

bool_str(b) == IF b THEN <<"true">> ELSE <<"false">>

\* cur.fetchone(): no row, a row holding NULL, or a row holding a count
NoRow == [row |-> FALSE, null |-> TRUE, count |-> 0]
NullRow == [row |-> TRUE, null |-> TRUE, count |-> 0]
CountRow(n) == [row |-> TRUE, null |-> FALSE, count |-> n]
QueryResults == {NoRow, NullRow} \cup {CountRow(n) : n \in 0..MaxCount}

Init ==
    /\ pc = 97
    /\ GITHUB_OUTPUT \in {Unset, Set(<<>>), Set(<<"x">>)}
    /\ smtp_env \in SmtpEnvs
    /\ user = Unset /\ password = Unset /\ dsn = Unset
    /\ threshold_str = <<>> /\ threshold = 0
    /\ metric_name = <<>> /\ metric_value = 0
    /\ utc_time = <<>> /\ alert = FALSE /\ email_sent = FALSE
    /\ output_file = <<>>
    /\ conn_open = FALSE
    /\ db_calls = 0
    /\ query_calls = 0
    /\ result = NoRow
    /\ THRESHOLD_VALUE = Unset
    /\ email_calls = <<>>
    /\ metric_source = "not_called"
    /\ uncaught = FALSE
    /\ exit_status = -1

\* a parse whose fallback is 0 instead of the documented default
ParseThreshold_zero(s) ==
    IF s = <<>> THEN 0
    ELSE IF int(s).ok THEN int(s).value ELSE 0

\* lines 101-111
ParseThreshold(s) ==
    IF s = <<>> THEN 100
    ELSE IF int(s).ok THEN int(s).value ELSE 100

\* a validation that forgets the data-store address
LoadConfig_no_dsn ==
    /\ pc = 97
    /\ \E u \in MandatoryValues, p \in MandatoryValues, d \in MandatoryValues,
          t \in ThresholdValues, st \in StatusValues :
        /\ user' = u /\ password' = p /\ dsn' = d
        /\ THRESHOLD_VALUE' = t
        /\ threshold_str' = strip(environ_get(t, <<"1", "0", "0">>))
        /\ threshold' = ParseThreshold(threshold_str')
        /\ IF ~(Truthy(u) /\ Truthy(p))
           THEN /\ st = Unset
                /\ pc' = 193 /\ exit_status' = 1
                /\ UNCHANGED metric_name
           ELSE /\ metric_name' = <<"L2_TO_MES_MESSAGES_STATUS_">>
                                    \o environ_get(st, <<"0">>) \o <<"_LAST_15_MIN">>
                /\ pc' = 138
                /\ UNCHANGED exit_status
    /\ UNCHANGED <<GITHUB_OUTPUT, smtp_env, result, query_calls, metric_value,
                   utc_time, alert, email_sent, output_file, conn_open, db_calls,
                   email_calls, metric_source, uncaught>>

\* lines 97-126: read the configuration, parse the threshold, validate
LoadConfig ==
    /\ pc = 97
    /\ \E u \in MandatoryValues, p \in MandatoryValues, d \in MandatoryValues,
          t \in ThresholdValues, st \in StatusValues :
        /\ user' = u /\ password' = p /\ dsn' = d
        /\ THRESHOLD_VALUE' = t
        /\ threshold_str' = strip(environ_get(t, <<"1", "0", "0">>))
        /\ threshold' = ParseThreshold(threshold_str')
        /\ IF ~(Truthy(u) /\ Truthy(p) /\ Truthy(d))
           THEN /\ st = Unset
                /\ pc' = 193 /\ exit_status' = 1
                /\ UNCHANGED metric_name
           ELSE /\ metric_name' = <<"L2_TO_MES_MESSAGES_STATUS_">>
                                    \o environ_get(st, <<"0">>) \o <<"_LAST_15_MIN">>
                /\ pc' = 138
                /\ UNCHANGED exit_status
    /\ UNCHANGED <<GITHUB_OUTPUT, smtp_env, result, query_calls, metric_value,
                   utc_time, alert, email_sent, output_file, conn_open, db_calls,
                   email_calls, metric_source, uncaught>>

\* line 171: the except clause is entered
EnterHandler ==
    /\ pc' = 174
    /\ utc_time' \in UtcNow

\* line 138: oracledb.connect
Connect ==
    /\ pc = 138
    /\ db_calls' = db_calls + 1
    /\ \/ /\ conn_open' = TRUE
          /\ pc' = 140
          /\ UNCHANGED <<utc_time, metric_source>>
       \/ /\ UNCHANGED conn_open
          /\ metric_source' = "raised"
          /\ EnterHandler
    /\ UNCHANGED <<GITHUB_OUTPUT, smtp_env, THRESHOLD_VALUE, result, query_calls, user, password, dsn, threshold_str,
                   threshold, metric_name, metric_value, alert, email_sent,
                   output_file, email_calls, uncaught, exit_status>>

\* a coercion that marks a missing value instead of zeroing it
Coerce_marked(row) ==
    IF row.row /\ ~row.null THEN row.count ELSE -1

\* line 143: int(result[0] if result and result[0] else 0)
Coerce(row) ==
    IF row.row /\ ~row.null /\ row.count # 0 THEN row.count ELSE 0

\* a query that closes the connection only when it returns
Query_leaky ==
    /\ pc = 140
    /\ query_calls' = query_calls + 1
    /\ \/ \E row \in QueryResults :
            /\ result' = row
            /\ conn_open' = FALSE
            /\ metric_value' = Coerce(row)
            /\ metric_source' = "returned"
            /\ pc' = 145
            /\ UNCHANGED utc_time
       \/ /\ UNCHANGED <<result, metric_value, conn_open>>
          /\ metric_source' = "raised"
          /\ EnterHandler
    /\ UNCHANGED <<GITHUB_OUTPUT, smtp_env, THRESHOLD_VALUE, user, password, dsn, threshold_str,
                   threshold, metric_name, alert, email_sent, output_file,
                   db_calls, email_calls, uncaught, exit_status>>

\* lines 140-143: cursor, execute, fetchone; both with-blocks are left, so the
\* connection is closed whether or not the query raised
Query ==
    /\ pc = 140
    /\ conn_open' = FALSE
    /\ query_calls' = query_calls + 1
    /\ \/ \E row \in QueryResults :
            /\ result' = row
            /\ metric_value' = Coerce(row)
            /\ metric_source' = "returned"
            /\ pc' = 145
            /\ UNCHANGED utc_time
       \/ /\ UNCHANGED <<result, metric_value>>
          /\ metric_source' = "raised"
          /\ EnterHandler
    /\ UNCHANGED <<GITHUB_OUTPUT, smtp_env, THRESHOLD_VALUE, user, password, dsn, threshold_str,
                   threshold, metric_name, alert, email_sent, output_file,
                   db_calls, email_calls, uncaught, exit_status>>

\* a threshold rule that alerts only above the threshold
triggered_above(value, thr) == value > thr

\* line 146: metric_value >= threshold
triggered(value, thr) == value >= thr

\* lines 145-151
Decide ==
    /\ pc = 145
    /\ utc_time' \in UtcNow
    /\ alert' = triggered(metric_value, threshold)
    /\ email_sent' = FALSE
    /\ pc' = 154
    /\ UNCHANGED <<GITHUB_OUTPUT, smtp_env, THRESHOLD_VALUE, result, query_calls, user, password, dsn, threshold_str,
                   threshold, metric_name, metric_value, output_file, conn_open,
                   db_calls, email_calls, metric_source, uncaught, exit_status>>

\* one send_email_alert invocation: its arguments, what the SMTP server
\* answered, and whether it raised or what it returned
Call(name, value, thr, time, transport, r) ==
    [metric_name |-> name, metric_value |-> value, threshold |-> thr,
     utc_time |-> time, transport |-> transport, raised |-> r.raised,
     returned |-> r.value]

\* a notifier that sends whatever was decided
NotifyAlways ==
    /\ pc = 154
    /\ \E transport \in TransportAnswers :
         LET r == send_email_alert(smtp_env, transport)
         IN  /\ email_calls' = Append(email_calls,
                   Call(metric_name, metric_value, threshold, utc_time, transport, r))
             /\ email_sent' = r.value
    /\ pc' = 160
    /\ UNCHANGED <<GITHUB_OUTPUT, smtp_env, THRESHOLD_VALUE, result, query_calls, user, password, dsn, threshold_str,
                   threshold, metric_name, metric_value, utc_time, alert,
                   output_file, conn_open, db_calls, metric_source, uncaught,
                   exit_status>>

\* lines 154-157: send the alert mail when the threshold is reached
NotifyIfTriggered ==
    /\ pc = 154
    /\ IF alert
       THEN \E transport \in TransportAnswers :
              LET r == send_email_alert(smtp_env, transport)
              IN  /\ email_calls' = Append(email_calls,
                        Call(metric_name, metric_value, threshold, utc_time, transport, r))
                  /\ IF r.raised
                     THEN /\ EnterHandler
                          /\ UNCHANGED email_sent
                     ELSE /\ email_sent' = r.value
                          /\ pc' = 160
                          /\ UNCHANGED utc_time
       ELSE /\ pc' = 160
            /\ UNCHANGED <<email_calls, email_sent, utc_time>>
    /\ UNCHANGED <<GITHUB_OUTPUT, smtp_env, THRESHOLD_VALUE, result, query_calls, user, password, dsn, threshold_str,
                   threshold, metric_name, metric_value, alert, output_file,
                   conn_open, db_calls, metric_source, uncaught, exit_status>>

\* a report that does not take up the notifier's result
SuccessOutput_unfolded(l) ==
    CASE l = 160 -> <<"alert", bool_str(alert)>>
      [] l = 161 -> <<"metric_name", metric_name>>
      [] l = 162 -> <<"metric_value", str(metric_value)>>
      [] l = 163 -> <<"threshold", str(threshold)>>
      [] l = 164 -> <<"utc_time", utc_time>>
      [] l = 165 -> <<"email_sent", <<"false">>>>

\* the set_output call at line l of the try block
SuccessOutput(l) ==
    CASE l = 160 -> <<"alert", bool_str(alert)>>
      [] l = 161 -> <<"metric_name", metric_name>>
      [] l = 162 -> <<"metric_value", str(metric_value)>>
      [] l = 163 -> <<"threshold", str(threshold)>>
      [] l = 164 -> <<"utc_time", utc_time>>
      [] l = 165 -> <<"email_sent", bool_str(email_sent)>>

\* lines 160-168: one set_output call; after the last one main returns 0.
\* An exception of set_output is caught by the except clause of line 170.
ReportOutcome ==
    /\ pc \in 160..165
    /\ \E io_ok \in BOOLEAN :
         LET out == SuccessOutput(pc)
             r == set_output(GITHUB_OUTPUT, output_file, out[1], out[2], io_ok)
         IN  /\ output_file' = r.file
             /\ IF r.raised
                THEN /\ EnterHandler
                     /\ UNCHANGED exit_status
                ELSE /\ UNCHANGED utc_time
                     /\ IF pc = 165
                        THEN pc' = 193 /\ exit_status' = 0
                        ELSE pc' = pc + 1 /\ UNCHANGED exit_status
    /\ UNCHANGED <<GITHUB_OUTPUT, smtp_env, THRESHOLD_VALUE, result, query_calls, user, password, dsn, threshold_str,
                   threshold, metric_name, metric_value, alert, email_sent,
                   conn_open, db_calls, email_calls, metric_source, uncaught>>

\* an error report that writes the alert local instead of forcing it
ErrorOutput_unforced(l) ==
    CASE l = 174 -> <<"alert", bool_str(alert)>>
      [] l = 175 -> <<"metric_name", ORACLE_CHECK_FAILED>>
      [] l = 176 -> <<"metric_value", <<"0">>>>
      [] l = 177 -> <<"threshold", str(threshold)>>
      [] l = 178 -> <<"utc_time", utc_time>>
      [] l = 179 -> <<"email_sent", <<"false">>>>

\* the set_output call at line l of the except block
ErrorOutput(l) ==
    CASE l = 174 -> <<"alert", <<"true">>>>
      [] l = 175 -> <<"metric_name", ORACLE_CHECK_FAILED>>
      [] l = 176 -> <<"metric_value", <<"0">>>>
      [] l = 177 -> <<"threshold", str(threshold)>>
      [] l = 178 -> <<"utc_time", utc_time>>
      [] l = 179 -> <<"email_sent", <<"false">>>>

\* lines 174-181: one set_output call of the except block.  Nothing catches
\* an exception here: it leaves main() and the interpreter exits with 1.
ReportError ==
    /\ pc \in 174..179
    /\ \E io_ok \in BOOLEAN :
         LET out == ErrorOutput(pc)
             r == set_output(GITHUB_OUTPUT, output_file, out[1], out[2], io_ok)
         IN  /\ output_file' = r.file
             /\ IF r.raised
                THEN /\ pc' = 193 /\ exit_status' = 1 /\ uncaught' = TRUE
                ELSE /\ pc' = IF pc = 179 THEN 185 ELSE pc + 1
                     /\ UNCHANGED <<exit_status, uncaught>>
    /\ UNCHANGED <<GITHUB_OUTPUT, smtp_env, THRESHOLD_VALUE, result, query_calls, user, password, dsn, threshold_str,
                   threshold, metric_name, metric_value, utc_time, alert,
                   email_sent, conn_open, db_calls, email_calls, metric_source>>

\* lines 183-189: the failure mail; whatever it does is discarded, return 1
NotifyFailure ==
    /\ pc = 185
    /\ \E transport \in TransportAnswers :
         LET r == send_email_alert(smtp_env, transport)
         IN  email_calls' = Append(email_calls,
                 Call(ORACLE_CHECK_FAILED, 0, threshold, utc_time, transport, r))
    /\ pc' = 193
    /\ exit_status' = 1
    /\ UNCHANGED <<GITHUB_OUTPUT, smtp_env, THRESHOLD_VALUE, result, query_calls, user, password, dsn, threshold_str,
                   threshold, metric_name, metric_value, utc_time, alert,
                   email_sent, output_file, conn_open, db_calls, metric_source,
                   uncaught>>

Next ==
    \/ LoadConfig
    \/ Connect
    \/ Query
    \/ Decide
    \/ NotifyIfTriggered
    \/ ReportOutcome
    \/ ReportError
    \/ NotifyFailure

Spec == Init /\ [][Next]_vars

(* ------------------------- reading a run ------------------------------- *)

Keys == {"alert", "metric_name", "metric_value", "threshold", "utc_time", "email_sent"}

Exited == pc = 193

\* a sink destination is configured
SinkConfigured == Truthy(GITHUB_OUTPUT)

\* the mandatory identity, secret or address is missing (set by LoadConfig)
ConfigMissing == pc # 97 /\ ~(Truthy(user) /\ Truthy(password) /\ Truthy(dsn))

\* the run ended on the Reported path: main returned at line 168
Completed == Exited /\ exit_status = 0

\* how many lines of the sink file are written for key k
Written(k) == Cardinality({i \in 1..Len(output_file) : output_file[i][1] = k})

\* the values the sink file holds for key k
Values(k) == {output_file[i][2] : i \in {j \in 1..Len(output_file) : output_file[j][1] = k}}

\* the sink file holds exactly one line for k, and its value is v
Reported(k, v) == Written(k) = 1 /\ Values(k) = {v}

Calls == {email_calls[i] : i \in 1..Len(email_calls)}

\* main() is on the success path, between the decision and its return
OnSuccessPath == pc \in {154} \cup (160..165) \/ Completed

(* ------------------------------ claims --------------------------------- *)

\* C1: a run with a sink destination configured ends with each of the six
\* keys written exactly once, whether the check completed, the Metric Source
\* failed or the mandatory configuration is missing.
C1_ExactlyOneRecord ==
    (Exited /\ SinkConfigured) => \A k \in Keys : Written(k) = 1

\* C2: once the check is decided, alert is exactly metric_value >= threshold,
\* and a completed run reports that value in the alert field; a value equal
\* to the threshold alerts.
C2_AlertIffAtOrAbove ==
    /\ OnSuccessPath => (alert <=> metric_value >= threshold)
    /\ Completed /\ SinkConfigured =>
          Reported("alert", bool_str(metric_value >= threshold))

C2_Witness ==
    /\ Completed /\ SinkConfigured
    /\ metric_value = threshold
    /\ Reported("alert", <<"true">>)

\* C3: a run exits with 1 exactly when the mandatory configuration is missing
\* or the Metric Source raised, and with 0 otherwise.
C3_ExitStatus ==
    Exited => /\ exit_status \in {0, 1}
              /\ exit_status = 1 <=> (ConfigMissing \/ metric_source = "raised")

\* C4: a run that exits with 1, missing configuration included, has reported
\* an outcome: the sink holds the sentinel metric name and alert=true.
C4_FailureIsReported ==
    (Exited /\ exit_status = 1 /\ SinkConfigured) =>
        /\ Reported("metric_name", ORACLE_CHECK_FAILED)
        /\ Reported("alert", <<"true">>)

\* C5: when the Metric Source raises the run exits with 1, and the record
\* written to a configured, writable sink has alert=true, the sentinel metric
\* name, metric_value=0 and the effective threshold, each once.
C5_MetricFailureRecord ==
    (Exited /\ metric_source = "raised") =>
        /\ exit_status = 1
        /\ \A k \in Keys : Written(k) <= 1
        /\ Values("alert") \subseteq {<<"true">>}
        /\ Values("metric_name") \subseteq {ORACLE_CHECK_FAILED}
        /\ Values("metric_value") \subseteq {<<"0">>}
        /\ Values("threshold") \subseteq {str(threshold)}
        /\ (SinkConfigured /\ ~uncaught) =>
              /\ Reported("alert", <<"true">>)
              /\ Reported("metric_name", ORACLE_CHECK_FAILED)
              /\ Reported("metric_value", <<"0">>)
              /\ Reported("threshold", str(threshold))

C5_Witness ==
    /\ Exited /\ metric_source = "raised" /\ SinkConfigured /\ ~uncaught
    /\ threshold = 11
    /\ Reported("threshold", <<"1", "1">>)
    /\ Reported("metric_name", ORACLE_CHECK_FAILED)

\* C6: on the failure path the email_sent field is true exactly when the
\* failure notification was delivered (send_email_alert returned true).
C6_EmailSentReflectsNotifier ==
    (Exited /\ metric_source = "raised" /\ SinkConfigured /\ ~uncaught) =>
        (Reported("email_sent", <<"true">>) <=> \E c \in Calls : c.returned)

\* C7: a completed check that triggered has invoked the Notifier once, with
\* the metric read and the threshold, and its record has alert=true, the
\* metric value, the threshold, and email_sent equal to what the Notifier
\* returned.
C7_NotifierResultFolded ==
    (Completed /\ alert) =>
        /\ Len(email_calls) = 1
        /\ email_calls[1].metric_name = metric_name
        /\ email_calls[1].metric_value = metric_value
        /\ email_calls[1].threshold = threshold
        /\ email_sent = email_calls[1].returned
        /\ SinkConfigured =>
              /\ Reported("alert", <<"true">>)
              /\ Reported("metric_value", str(metric_value))
              /\ Reported("threshold", str(threshold))
              /\ Reported("email_sent", bool_str(email_calls[1].returned))

C7_Witness ==
    /\ Completed /\ alert /\ SinkConfigured
    /\ Len(email_calls) = 1 /\ email_calls[1].returned
    /\ Reported("email_sent", <<"true">>)

\* C8: while a check whose metric value is below the threshold is on the
\* success path the Notifier has not been invoked, and when it completes the
\* record has alert=false and email_sent=false.
C8_NoNotificationBelowThreshold ==
    (OnSuccessPath /\ metric_value < threshold) =>
        /\ email_calls = <<>>
        /\ (Completed /\ SinkConfigured) =>
              /\ Reported("alert", <<"false">>)
              /\ Reported("email_sent", <<"false">>)

C8_Witness ==
    /\ Completed /\ SinkConfigured
    /\ metric_value < threshold
    /\ Reported("alert", <<"false">>)

\* some variable that send_email_alert requires is not in the environment
SmtpConfigMissing ==
    \E v \in SmtpVars \ {"SMTP_PORT"} : ~smtp_env[v].present

\* C9: no send_email_alert call raises; a call returns true only when the
\* transport confirmed delivery, and missing transport configuration, a
\* network, TLS or authentication failure and refused recipients all make
\* it return false.
C9_NotifierNeverRaises ==
    \A c \in Calls :
        /\ ~c.raised
        /\ c.returned => (c.transport = "delivered" /\ ~SmtpConfigMissing)
        /\ (SmtpConfigMissing \/ c.transport # "delivered") => ~c.returned

C9_Witness ==
    /\ pc \in 160..165
    /\ \E c \in Calls : c.transport = "auth_error" /\ ~c.raised /\ ~c.returned

Chars(s) == {s[i] : i \in 1..Len(s)}

\* C11: THRESHOLD_VALUE unset gives the threshold 100, a value that is no
\* number gives 100, a decimal numeral gives its number; parsing ends no run
\* (a run that exits before the query has missing configuration), and the
\* threshold so obtained is the one compared with the metric and the one
\* written to the sink.
C11_ThresholdParsing ==
    pc # 97 =>
        /\ ~THRESHOLD_VALUE.present => threshold = 100
        /\ (THRESHOLD_VALUE.present /\ "a" \in Chars(THRESHOLD_VALUE.value)) =>
              threshold = 100
        /\ THRESHOLD_VALUE = Set(<<"1">>) => threshold = 1
        /\ THRESHOLD_VALUE = Set(<<"1", "1">>) => threshold = 11
        /\ (THRESHOLD_VALUE.present /\ IsDigits(THRESHOLD_VALUE.value)) =>
              str(threshold) = THRESHOLD_VALUE.value
        /\ (Exited /\ db_calls = 0) => ConfigMissing
        /\ OnSuccessPath => (alert <=> metric_value >= threshold)
        /\ Values("threshold") \subseteq {str(threshold)}
        /\ (Completed /\ SinkConfigured) => Reported("threshold", str(threshold))

C11_Witness ==
    /\ Completed /\ SinkConfigured
    /\ THRESHOLD_VALUE = Set(<<"a">>)
    /\ threshold = 100
    /\ Reported("threshold", <<"1", "0", "0">>)

\* C12: whatever THRESHOLD_VALUE holds, the threshold the decision uses and
\* the threshold written to the sink are not negative.
C12_ThresholdNonNegative ==
    /\ OnSuccessPath => threshold >= 0
    /\ \A v \in Values("threshold") : Head(v) # "-"

\* C13: a run whose mandatory identity, secret or address is missing has
\* exited with 1 without invoking the Metric Source: no connection was asked
\* for or opened and no query was executed.
C13_NoQueryWithoutConfig ==
    ConfigMissing =>
        /\ Exited /\ exit_status = 1
        /\ db_calls = 0 /\ query_calls = 0
        /\ ~conn_open
        /\ metric_source = "not_called"

C13_Witness ==
    /\ Exited /\ ConfigMissing
    /\ Truthy(user) /\ Truthy(password) /\ dsn = Set(<<>>)
    /\ db_calls = 0

\* C14: the metric value the Metric Source returns is never negative; no row
\* and a NULL scalar both give 0, a count gives that count, and such a run
\* completes (with no sink to fail, it exits with 0).
C14_MetricCoercion ==
    metric_source = "returned" =>
        /\ metric_value >= 0
        /\ (~result.row \/ result.null) => metric_value = 0
        /\ (result.row /\ ~result.null) => metric_value = result.count
        /\ (Exited /\ ~SinkConfigured) => exit_status = 0

C14_Witness ==
    /\ Completed
    /\ result = NullRow
    /\ metric_value = 0

\* C15: in every run the pipeline connects at most once, queries at most
\* once and invokes send_email_alert at most once.
C15_AtMostOneCall ==
    /\ db_calls <= 1
    /\ query_calls <= 1
    /\ Len(email_calls) <= 1

\* C17: with GITHUB_OUTPUT unset or empty nothing is written and no
\* set_output call raises: the run is never diverted to the except block by
\* the sink, it exits with 1 exactly for missing configuration or a failed
\* metric read, and it decides and notifies as the rule says (one mail when
\* the threshold is reached or the read failed, none otherwise).
C17_NoSinkIsNotAnError ==
    ~SinkConfigured =>
        /\ output_file = <<>>
        /\ ~uncaught
        /\ metric_source = "returned" => pc \notin 174..185
        /\ Exited => (exit_status = 1 <=> (ConfigMissing \/ metric_source = "raised"))
        /\ Completed =>
              /\ alert <=> metric_value >= threshold
              /\ Len(email_calls) = IF alert THEN 1 ELSE 0
        /\ (Exited /\ metric_source = "raised") => Len(email_calls) = 1

C17_Witness ==
    /\ GITHUB_OUTPUT = Set(<<>>)
    /\ Completed /\ alert
    /\ Len(email_calls) = 1
    /\ output_file = <<>>

\* C18: every send_email_alert call is made before any line of the
\* OutcomeRecord is written to the sink.
C18_NotifyBeforeRecord ==
    [][email_calls' # email_calls => output_file = <<>>]_vars

\* C19: a run in which the Metric Source raised ends with exit status 1
\* after exactly one send_email_alert call, made with ORACLE_CHECK_FAILED,
\* 0 and the threshold.
C19_OneFailureNotification ==
    (Exited /\ metric_source = "raised") =>
        /\ exit_status = 1
        /\ Len(email_calls) = 1
        /\ email_calls[1].metric_name = ORACLE_CHECK_FAILED
        /\ email_calls[1].metric_value = 0
        /\ email_calls[1].threshold = threshold

\* C20: a connection is open only between connect and the end of the query:
\* none is open when the Notifier is invoked, when the sink is written, in
\* the except block or when the run has ended.
C20_ConnectionReleased ==
    /\ conn_open => pc = 140
    /\ pc \in {154, 185} \cup (160..165) \cup (174..179) \cup {193} => ~conn_open

C20_Witness ==
    /\ pc = 174
    /\ query_calls = 1
    /\ metric_source = "raised"
    /\ ~conn_open

====
